---------------------------- MODULE Spec2Model ----------------------------
(***************************************************************************)
(* ts-remote-data-react: the hooks and components that adapt asynchronous  *)
(* results (RemoteData) to React renders.                                  *)
(*                                                                         *)
(* A component instance is modelled by its hook state (useState cells,     *)
(* useRef cells, the dependency lists and cleanups of its committed        *)
(* effects) and evolves by the steps React takes: an evaluation (the       *)
(* function body runs, render-phase updates included, and commits), the    *)
(* flush of the passive effects of the last commit, a timer firing, a      *)
(* promise reaction running.  React renders synchronously: a state update *)
(* made outside a render (by a timer, a promise reaction, an effect) is    *)
(* rendered and committed within the step that makes it, and only the      *)
(* passive effects of a commit are deferred.  They run before the next     *)
(* render of the instance, and the state updates they make are applied     *)
(* after the update that caused this render (the order of React 16.9 and   *)
(* later).  Time is counted in ticks of MsPerTick ms; a tick passes only   *)
(* when nothing is runnable, so setTimeout callbacks run at their          *)
(* deadline.                                                               *)
(***************************************************************************)
EXTENDS Integers, FiniteSets, Sequences, TLC

VARIABLES
    \* ActivityIndicator (one scope)
    registered,      \* registered.current: the Set<number> of tokens
    isIndicating,    \* useState cell of ActivityIndicator
    uniqueId,        \* module-level counter
    handles,         \* ids whose deregister closure was returned to a direct caller
    called,          \* ids whose deregister closure has been called at least once
    \* useRemoteLatest / useActivityIndicator / useTimeout, one record per
    \* component instance calling useRemoteLatest (a producer)
    producer,
    episode,         \* history of each producer's current or last hasActivity run
    \* usePromise, one component instance calling it (the consumer)
    consumer,        \* its props and hook state
    settlement,      \* each promise: "pending", "fulfilled" or "rejected"
    reactions,       \* the `then` callbacks attached and not yet run
    superseded,      \* history: promises replaced by another while pending
    \* RemoteSuspense, one instance
    suspense,        \* its props, hook state and the element it rendered
    gate,            \* history of its current or last LOADING phase
    \* useTimeout, one component instance calling it (the host)
    host,            \* its arguments and hook state
    timing,          \* history of the arguments and of the callbacks run
    \* useAsyncOperation, calling usePromise for the consumer
    operation,       \* its arguments and hook state
    aborted,         \* the AbortControllers whose abort() was called
    now,             \* the clock, in ticks
    \* history
    lastOp           \* the last step taken: [op, id]

regVars == <<registered, isIndicating, uniqueId, handles, called>>
latestVars == <<producer, episode>>
promiseVars == <<consumer, settlement, reactions, superseded>>
suspenseVars == <<suspense, gate>>
timeoutVars == <<host, timing>>
operationVars == <<operation, aborted>>
restVars == <<timeoutVars, operationVars>>
vars == <<regVars, latestVars, promiseVars, suspenseVars, restVars, now, lastOp>>

-----------------------------------------------------------------------------
(* Bounds *)

\* register() calls modelled (uniqueId is an unbounded counter in the code)
MaxIds == 5

\* producers sharing the ActivityIndicator scope
NumProducers == 2

\* distinct ready values and errors carried by RemoteData
NumValues == 2
NumErrors == 1

\* the clock stops at MaxTime ticks of MsPerTick milliseconds
MaxTime == 8
MsPerTick == 50

\* an indicatorTimeout option other than the default, in ms
ShortIndicatorTimeout == 100

\* promises a parent may pass to usePromise
NumPromises == 3

\* callbacks a host may pass to useTimeout, and the numeric delays, in ms
NumCallbacks == 2
ShortDelay == 150
LongDelay == 200

\* functions and dependency values a component may pass to useAsyncOperation,
\* and the AbortControllers it may create
NumOps == 2
NumDeps == 2
NumControllers == 3

\* a loadingTimeout prop other than the default, in ms
ShortLoadingTimeout == 100

\* LOADING phases in a row of which the history keeps count
MaxPhases == 2

\* bound on the operations started before a teardown
TeardownPromises == 2

\* bound on the closures obtained outside any ActivityIndicator
MaxNoops == 2

Op(o, i) == [op |-> o, id |-> i]

Producers == 1..NumProducers

Ticks(ms) == ms \div MsPerTick

-----------------------------------------------------------------------------
(* RemoteData (ts-remote-data), as the hooks use it *)

NOT_ASKED == [tag |-> "NOT_ASKED", val |-> 0]
LOADING == [tag |-> "LOADING", val |-> 0]
Ready(v) == [tag |-> "Ready", val |-> v]
failWith(e) == [tag |-> "Failed", val |-> e]

isReady(d) == d.tag = "Ready"
isFailure(d) == d.tag = "Failed"

RemoteData ==
    {NOT_ASKED, LOADING} \cup {Ready(v) : v \in 1..NumValues}
        \cup {failWith(e) : e \in 1..NumErrors}

-----------------------------------------------------------------------------
(* ActivityIndicator: the registrar *)

\* The registry of one ActivityIndicator scope together with the module counter.
Registry == [registered |-> registered, isIndicating |-> isIndicating,
             uniqueId |-> uniqueId]

\* register() with the emptiness test inverted.
register_invertedEmptyTest(reg) ==
    LET id == reg.uniqueId
        wasEmpty == reg.registered = {}
    IN  [registered |-> reg.registered \cup {id},
         isIndicating |-> IF ~wasEmpty THEN TRUE ELSE reg.isIndicating,
         uniqueId |-> reg.uniqueId + 1]

\* register(): lines 85-89; the closure returned is deregister(_, id) with
\* id = the counter's value before the call.
register(reg) ==
    LET id == reg.uniqueId
        wasEmpty == reg.registered = {}
    IN  [registered |-> reg.registered \cup {id},
         isIndicating |-> IF wasEmpty THEN TRUE ELSE reg.isIndicating,
         uniqueId |-> reg.uniqueId + 1]

\* deregister without the size test: any deregistration hides the indicator.
deregister_alwaysClears(reg, id) ==
    [registered |-> reg.registered \ {id},
     isIndicating |-> FALSE,
     uniqueId |-> reg.uniqueId]

\* deregister as a counter would do it: a token already gone takes another one
\* with it.
deregister_countsDown(reg, id) ==
    LET gone == IF id \in reg.registered \/ reg.registered = {}
                THEN {id}
                ELSE {CHOOSE j \in reg.registered :
                        \A k \in reg.registered : j >= k}
        left == reg.registered \ gone
    IN  [registered |-> left,
         isIndicating |-> IF left = {} THEN FALSE ELSE reg.isIndicating,
         uniqueId |-> reg.uniqueId]

\* The closure returned by register(): lines 90-93.
deregister(reg, id) ==
    LET left == reg.registered \ {id}
    IN  [registered |-> left,
         isIndicating |-> IF left = {} THEN FALSE ELSE reg.isIndicating,
         uniqueId |-> reg.uniqueId]

SetRegistry(reg) ==
    /\ registered' = reg.registered
    /\ isIndicating' = reg.isIndicating
    /\ uniqueId' = reg.uniqueId

InitRegistry ==
    /\ registered = {}
    /\ isIndicating = FALSE
    /\ uniqueId = 0
    /\ handles = {}
    /\ called = {}

\* A producer calls context.register() and keeps the closure it returns.
CallRegister ==
    /\ uniqueId < MaxIds
    /\ SetRegistry(register(Registry))
    /\ handles' = handles \cup {uniqueId}
    /\ called' = called
    /\ lastOp' = Op("register", uniqueId)
    /\ UNCHANGED <<latestVars, promiseVars, suspenseVars, restVars, now>>

\* A producer calls a closure it was given, for the first time or again.
CallDeregister(id) ==
    /\ id \in handles
    /\ SetRegistry(deregister(Registry, id))
    /\ called' = called \cup {id}
    /\ handles' = handles
    /\ lastOp' = Op(IF id \in called THEN "deregisterAgain" ELSE "deregister", id)
    /\ UNCHANGED <<latestVars, promiseVars, suspenseVars, restVars, now>>

NextRegistry ==
    \/ CallRegister
    \/ \E id \in 0..(MaxIds - 1) : CallDeregister(id)

\* The default value of ActivityIndicatorContext handing out the scope's
\* registrar.
defaultRegister_registers(reg) == register(reg)

\* register() of the default value of ActivityIndicatorContext, lines 25-29,
\* which useContext returns where no ActivityIndicator is an ancestor: the
\* registry it leaves behind.
defaultRegister(reg) == reg

\* The closure the default register() returns: `() => {}`.
defaultDeregister(reg, id) == reg

\* The default value of ActivityStatusContext following the scope's state.
defaultStatus_followsScope(reg) == reg.isIndicating

\* The default value of ActivityStatusContext, line 37.
defaultStatus(reg) == FALSE

\* useActivityIndicatorStatus(), lines 142-146: the value of
\* ActivityStatusContext, which is the provider's isIndicating below an
\* ActivityIndicator and the default elsewhere.
useActivityIndicatorStatus(inScope, reg) ==
    IF inScope THEN reg.isIndicating ELSE defaultStatus(reg)

\* The closures handed out by the default register() are told apart from the
\* scope's by a negative handle.
Noops == {0 - k : k \in 1..MaxNoops}

\* A component outside the scope calls context.register() and keeps the
\* closure.
RegisterOutside ==
    LET k == 0 - (Cardinality(handles \cap Noops) + 1)
    IN  /\ k \in Noops
        /\ SetRegistry(defaultRegister(Registry))
        /\ handles' = handles \cup {k}
        /\ called' = called
        /\ lastOp' = Op("registerOutside", k)
        /\ UNCHANGED <<latestVars, promiseVars, suspenseVars, restVars, now>>

\* A component outside the scope calls a closure it was given.
DeregisterOutside(k) ==
    /\ k \in handles \cap Noops
    /\ SetRegistry(defaultDeregister(Registry, k))
    /\ called' = called \cup {k}
    /\ handles' = handles
    /\ lastOp' = Op("deregisterOutside", k)
    /\ UNCHANGED <<latestVars, promiseVars, suspenseVars, restVars, now>>

\* A component calls useActivityIndicatorStatus(), below the ActivityIndicator
\* or outside it.
ReadStatus(inScope) ==
    /\ lastOp' = Op(IF inScope THEN "status" ELSE "statusOutside",
                    IF useActivityIndicatorStatus(inScope, Registry)
                    THEN 1 ELSE 0)
    /\ UNCHANGED <<regVars, latestVars, promiseVars, suspenseVars, restVars, now>>

NextOutside ==
    \/ CallRegister
    \/ \E id \in 0..(MaxIds - 1) : CallDeregister(id)
    \/ RegisterOutside
    \/ \E k \in Noops : DeregisterOutside(k)
    \/ \E inScope \in BOOLEAN : ReadStatus(inScope)

-----------------------------------------------------------------------------
(* useTimeout *)

\* the delays that are not numbers, `false` and `null`; numbers are the
\* delays >= 0, in ms
DelayFalse == -1
DelayNull == -2
\* no timeout is scheduled
NoTimer == -1

\* typeof delay === 'number'
isNumber(delay) == delay >= 0

\* The [delay] effect without its cleanup: a timeout already scheduled is
\* neither cleared nor replaced.
timeoutEffect_noCleanup(t, delay, clock) ==
    IF t.ran /\ t.delay = delay
    THEN t
    ELSE [ran |-> TRUE, delay |-> delay,
          deadline |-> IF t.deadline # NoTimer
                       THEN t.deadline
                       ELSE IF isNumber(delay)
                            THEN clock + Ticks(delay)
                            ELSE NoTimer]

\* The [delay] effect amending the timeout: a new delay counts from the
\* moment the pending timeout was scheduled.
timeoutEffect_amends(t, delay, clock) ==
    IF t.ran /\ t.delay = delay
    THEN t
    ELSE [ran |-> TRUE, delay |-> delay,
          deadline |-> IF isNumber(delay)
                       THEN IF t.deadline # NoTimer
                            THEN t.deadline - Ticks(t.delay) + Ticks(delay)
                            ELSE clock + Ticks(delay)
                       ELSE NoTimer]

\* The [delay] effect with [callback, delay] for its dependencies: it runs
\* again at every commit whose passive effects run.
timeoutEffect_resetsAlways(t, delay, clock) ==
    [ran |-> TRUE, delay |-> delay,
     deadline |-> IF isNumber(delay) THEN clock + Ticks(delay) ELSE NoTimer]

\* The [delay] effect returning early before its cleanup is registered for a
\* delay that is not a number: the pending timeout stays.
timeoutEffect_keepsOnDisable(t, delay, clock) ==
    IF t.ran /\ t.delay = delay
    THEN t
    ELSE [ran |-> TRUE, delay |-> delay,
          deadline |-> IF isNumber(delay)
                       THEN clock + Ticks(delay)
                       ELSE t.deadline]

\* The [delay] effect of useTimeout at a commit, t = [ran, delay, deadline]
\* being its last run: skipped when the dependency is unchanged; otherwise
\* the cleanup of the last run (clearTimeout) and then the effect, which
\* schedules `fire` only for a number.
timeoutEffect(t, delay, clock) ==
    IF t.ran /\ t.delay = delay
    THEN t
    ELSE [ran |-> TRUE, delay |-> delay,
          deadline |-> IF isNumber(delay)
                       THEN clock + Ticks(delay)
                       ELSE NoTimer]

\* The cleanup of the [delay] effect at unmount.
timeoutCleanup(t) == [t EXCEPT !.deadline = NoTimer]

-----------------------------------------------------------------------------
(* useActivityIndicator *)

\* the effect holds no deregister closure
NoToken == -1
\* options.indicatorTimeout is not given
Undefined == -1

TimeoutBeforeShowDefault == 250

\* the default parameter value of timeoutBeforeShow
timeoutBeforeShow(indicatorTimeout) ==
    IF indicatorTimeout = Undefined
    THEN TimeoutBeforeShowDefault
    ELSE indicatorTimeout

\* `hasActivity && timeoutBeforeShow`, the delay handed to useTimeout
activityDelay(hasActivity, timeout) ==
    IF hasActivity THEN timeout ELSE DelayFalse

\* the body without its last line: `show` is left as it is
showAfterRender_keepsShow(hasActivity, show) == show

\* the value of `show` after the body ran: `if (!hasActivity && show)
\* setShow(false)`
showAfterRender(hasActivity, show) ==
    IF ~hasActivity /\ show THEN FALSE ELSE show

\* The [context, show] effect returning nothing to clean up: a token, once
\* registered, is never withdrawn.
registerEffect_noCleanup(e, show, reg) ==
    IF e.ran /\ e.show = show
    THEN [eff |-> e, reg |-> reg]
    ELSE IF show
         THEN [eff |-> [ran |-> TRUE, show |-> TRUE, token |-> reg.uniqueId],
               reg |-> register(reg)]
         ELSE [eff |-> [ran |-> TRUE, show |-> FALSE, token |-> e.token],
               reg |-> reg]

\* The [context, show] effect at a commit, e = [ran, show, token] being its
\* last run: skipped when `show` is unchanged; otherwise the cleanup of the
\* last run (the deregister closure, if one was returned) and then
\* `show ? context.register() : undefined`.
registerEffect(e, show, reg) ==
    IF e.ran /\ e.show = show
    THEN [eff |-> e, reg |-> reg]
    ELSE LET cleaned == IF e.token # NoToken
                        THEN deregister(reg, e.token)
                        ELSE reg
         IN  IF show
             THEN [eff |-> [ran |-> TRUE, show |-> TRUE,
                            token |-> cleaned.uniqueId],
                   reg |-> register(cleaned)]
             ELSE [eff |-> [ran |-> TRUE, show |-> FALSE, token |-> NoToken],
                   reg |-> cleaned]

\* The unmount dropping the closure without calling it.
registerCleanup_dropsClosure(e, reg) ==
    [eff |-> [e EXCEPT !.token = NoToken], reg |-> reg]

\* The cleanup of the [context, show] effect at unmount.
registerCleanup(e, reg) ==
    [eff |-> [e EXCEPT !.token = NoToken],
     reg |-> IF e.token # NoToken THEN deregister(reg, e.token) ELSE reg]

-----------------------------------------------------------------------------
(* useRemoteLatest *)

\* Latest keeping whatever settled value is stored, a failure included.
Latest_keepsFailure(shown, data) ==
    IF isReady(data) \/ isFailure(data) \/ ~(isReady(shown) \/ isFailure(shown))
    THEN data
    ELSE shown

\* Latest without the isFailure test: a ready value is kept over a failure.
Latest_ignoresFailure(shown, data) ==
    IF isReady(data) \/ ~isReady(shown)
    THEN data
    ELSE shown

\* Latest taking NOT_ASKED for a settled state.
Latest_acceptsNotAsked(shown, data) ==
    IF isReady(data) \/ isFailure(data) \/ data = NOT_ASKED \/ ~isReady(shown)
    THEN data
    ELSE shown

\* The new shown.current: `data` when it is settled or when nothing ready is
\* shown, the old value otherwise.
Latest(shown, data) ==
    IF isReady(data) \/ isFailure(data) \/ ~isReady(shown)
    THEN data
    ELSE shown

\* The hook state of an instance about to render for the first time with
\* `data`: useRef(data), useState(false), no effect has run.
Fresh(data) ==
    [mounted |-> TRUE,
     data |-> data, hideIndicator |-> FALSE, indicatorTimeout |-> Undefined,
     shown |-> data, ret |-> data,
     show |-> FALSE,
     rendered |-> [delay |-> DelayFalse, show |-> FALSE],
     timer |-> [ran |-> FALSE, delay |-> DelayFalse, deadline |-> NoTimer],
     reg |-> [ran |-> FALSE, show |-> FALSE, token |-> NoToken]]

\* The evaluation passing isShowingOld to useActivityIndicator whatever
\* options.hideIndicator is.
Render_ignoresHideIndicator(st, data, hideIndicator, indicatorTimeout) ==
    LET shown1 == Latest(st.shown, data)
        hasActivity == shown1 # data
        show2 == showAfterRender(hasActivity, st.show)
        shown2 == IF show2 # st.show THEN Latest(shown1, data) ELSE shown1
    IN  [st EXCEPT
           !.data = data,
           !.hideIndicator = hideIndicator,
           !.indicatorTimeout = indicatorTimeout,
           !.shown = shown2,
           !.ret = shown2,
           !.show = show2,
           !.rendered =
               [delay |-> activityDelay(hasActivity,
                                        timeoutBeforeShow(indicatorTimeout)),
                show |-> show2]]

\* One evaluation of useRemoteLatest(data, {hideIndicator, indicatorTimeout})
\* up to its commit.  When the body calls setShow(false) React runs the body
\* again with the new state before committing.
Render(st, data, hideIndicator, indicatorTimeout) ==
    LET shown1 == Latest(st.shown, data)
        isShowingOld == shown1 # data
        hasActivity == isShowingOld /\ ~hideIndicator
        show2 == showAfterRender(hasActivity, st.show)
        shown2 == IF show2 # st.show THEN Latest(shown1, data) ELSE shown1
    IN  [st EXCEPT
           !.data = data,
           !.hideIndicator = hideIndicator,
           !.indicatorTimeout = indicatorTimeout,
           !.shown = shown2,
           !.ret = shown2,
           !.show = show2,
           !.rendered =
               [delay |-> activityDelay(hasActivity,
                                        timeoutBeforeShow(indicatorTimeout)),
                show |-> show2]]

\* The passive effects of the last commit have not all run.
EffectsPending(st) ==
    /\ st.mounted
    /\ \/ ~st.timer.ran \/ st.timer.delay # st.rendered.delay
       \/ ~st.reg.ran \/ st.reg.show # st.rendered.show

\* hasActivity as the last evaluation computed it
HasActivity(st) == st.rendered.delay # DelayFalse

\* The passive effects of the last commit, in hook order.
Flush(st, reg, clock) ==
    LET t == timeoutEffect(st.timer, st.rendered.delay, clock)
        r == registerEffect(st.reg, st.rendered.show, reg)
    IN  [st |-> [st EXCEPT !.timer = t, !.reg = r.eff], reg |-> r.reg]

\* The cleanups at unmount.
Cleanup(st, reg) ==
    LET r == registerCleanup(st.reg, reg)
    IN  [st |-> [st EXCEPT !.mounted = FALSE,
                           !.timer = timeoutCleanup(st.timer),
                           !.reg = r.eff],
         reg |-> r.reg]

\* History of a producer's run of evaluations with hasActivity true, kept
\* while the run lasts and for the instant at which it ended: when it began,
\* the threshold it began under and whether that is still the threshold, the
\* value returned when it began, and the register and deregister calls the
\* producer made since it began.
NoEpisode ==
    [since |-> -1, ended |-> FALSE, timeout |-> Undefined, steady |-> TRUE,
     held |-> NOT_ASKED, regs |-> 0, deregs |-> 0]

\* The history after the effects took the producer's token from `before` to
\* `after`.
Counted(ep, before, after) ==
    [ep EXCEPT
       !.regs = @ + (IF after.token # NoToken /\ after.token # before.token
                     THEN 1 ELSE 0),
       !.deregs = @ + (IF before.token # NoToken /\ after.token # before.token
                       THEN 1 ELSE 0)]

\* The history after an evaluation took hasActivity from `was` to `st`'s.
Observed(ep, was, st, clock) ==
    LET timeout == timeoutBeforeShow(st.indicatorTimeout)
    IN  CASE HasActivity(st) /\ ~was ->
                 [since |-> clock, ended |-> FALSE, timeout |-> timeout,
                  steady |-> TRUE, held |-> st.ret, regs |-> 0, deregs |-> 0]
          [] HasActivity(st) /\ was ->
                 [ep EXCEPT !.steady = @ /\ ep.timeout = timeout]
          [] ~HasActivity(st) /\ was -> [ep EXCEPT !.ended = TRUE]
          [] OTHER -> ep

\* The history once the clock moves on.
Forgotten(ep, st) ==
    IF st.mounted /\ HasActivity(st) THEN ep ELSE NoEpisode

\* The instances in M have rendered for the first time, with any props; the
\* others are never mounted.
InitProducers(M) ==
    /\ \E d \in [M -> RemoteData] :
       \E h \in [M -> BOOLEAN] :
       \E t \in [M -> {Undefined, ShortIndicatorTimeout}] :
           producer = [p \in Producers |->
               IF p \in M
               THEN Render(Fresh(d[p]), d[p], h[p], t[p])
               ELSE [Fresh(NOT_ASKED) EXCEPT !.mounted = FALSE]]
    /\ episode = [p \in Producers |-> NoEpisode]

\* An evaluation of producer p, whose hook state is `from`, with the given
\* props: React first runs the passive effects still pending from the last
\* commit, then the body, and commits.
Evaluate(p, from, data, hideIndicator, indicatorTimeout) ==
    LET f == Flush(from, Registry, now)
        st == Render(f.st, data, hideIndicator, indicatorTimeout)
    IN  /\ from.mounted
        /\ f.reg.uniqueId <= MaxIds
        /\ producer' = [producer EXCEPT ![p] = st]
        /\ SetRegistry(f.reg)
        /\ episode' = [episode EXCEPT ![p] =
               Observed(Counted(@, from.reg, f.st.reg), HasActivity(from), st, now)]
        /\ UNCHANGED <<handles, called, now, lastOp, promiseVars, suspenseVars, restVars>>

\* The parent renders p with new props.
Rerender(p) ==
    \E d \in RemoteData, h \in BOOLEAN, t \in {Undefined, ShortIndicatorTimeout} :
        Evaluate(p, producer[p], d, h, t)

\* The scheduler runs the passive effects of p's last commit.
FlushEffects(p) ==
    LET old == producer[p]
        f == Flush(old, Registry, now)
    IN  /\ EffectsPending(old)
        /\ f.reg.uniqueId <= MaxIds
        /\ producer' = [producer EXCEPT ![p] = f.st]
        /\ SetRegistry(f.reg)
        /\ episode' = [episode EXCEPT ![p] = Counted(@, old.reg, f.st.reg)]
        /\ UNCHANGED <<handles, called, now, lastOp, promiseVars, suspenseVars, restVars>>

\* The timeout of p's useTimeout fires: currentCallback.current() is
\* () => setShow(true).  A state update made outside a render is rendered
\* before setShow returns, unless the state is unchanged.
TimerFire(p) ==
    LET old == producer[p]
        fired == [old EXCEPT !.timer.deadline = NoTimer]
    IN  /\ old.mounted
        /\ old.timer.deadline # NoTimer
        /\ old.timer.deadline <= now
        /\ IF old.show
           THEN /\ producer' = [producer EXCEPT ![p] = fired]
                /\ UNCHANGED <<regVars, episode, now, lastOp, promiseVars,
                               suspenseVars, restVars>>
           ELSE Evaluate(p, [fired EXCEPT !.show = TRUE], old.data,
                         old.hideIndicator, old.indicatorTimeout)

\* p is unmounted: pending passive effects run, then every cleanup.
Unmount(p) ==
    LET old == producer[p]
        f == Flush(old, Registry, now)
        c == Cleanup(f.st, f.reg)
    IN  /\ old.mounted
        /\ f.reg.uniqueId <= MaxIds
        /\ producer' = [producer EXCEPT ![p] = c.st]
        /\ SetRegistry(c.reg)
        /\ episode' = [episode EXCEPT ![p] =
               LET ep == Counted(Counted(@, old.reg, f.st.reg), f.st.reg, c.st.reg)
               IN  IF HasActivity(old) THEN [ep EXCEPT !.ended = TRUE] ELSE ep]
        /\ UNCHANGED <<handles, called, now, lastOp, promiseVars, suspenseVars, restVars>>

-----------------------------------------------------------------------------
(* usePromise *)

\* `undefined` passed for the promise
NoPromise == 0

\* the promises a parent may pass, by identity
PromiseIds == 1..NumPromises

\* What `promise.catch(RemoteData.failWith)` fulfils with once promise q has
\* settled as s.  Promise q fulfils with the value q or rejects with the
\* reason q, so that a result names the promise it came from.
result(q, s) == IF s = "fulfilled" THEN Ready(q) ELSE failWith(q)

\* the initial state of the useState cell
initialData(promise) == IF promise # NoPromise THEN LOADING ELSE NOT_ASKED

\* The hook state of an instance after its first render with `promise`: no
\* effect has run.
FreshConsumer(promise) ==
    [mounted |-> TRUE,
     promise |-> promise,
     data |-> initialData(promise),
     ret |-> initialData(promise),
     effect |-> [ran |-> FALSE, promise |-> NoPromise]]

\* The [promise] effect of the last commit has not run.
PromiseEffectPending(c) ==
    /\ c.mounted
    /\ ~c.effect.ran \/ c.effect.promise # c.promise

\* The cleanup of the [promise] effect: isStillRelevant = false in the closure
\* of its last run (the only one in which it can still be true).
promiseCleanup(rs) == {[r EXCEPT !.isStillRelevant = FALSE] : r \in rs}

\* The `then` callback attached to the promise itself, without
\* `.catch(RemoteData.failWith)`: a rejection never reaches it.
reaction_withoutCatch(r, s) ==
    IF r.isStillRelevant /\ s = "fulfilled"
    THEN <<result(r.promise, s)>>
    ELSE <<>>

\* The `then` callback without its test of isStillRelevant.
reaction_unguarded(r, s) == <<result(r.promise, s)>>

\* The `then` callback r = [promise, isStillRelevant], run with the result of
\* its promise settled as s: the setData calls it makes.
reaction(r, s) ==
    IF r.isStillRelevant THEN <<result(r.promise, s)>> ELSE <<>>

\* The [promise] effect at a commit: skipped when the dependency is unchanged;
\* otherwise the cleanup of the last run (if it returned one) and then the
\* effect.  Gives the new hook state, the callbacks attached and the setData
\* calls made.
promiseEffect(c, rs) ==
    IF ~PromiseEffectPending(c)
    THEN [c |-> c, reactions |-> rs, updates |-> <<>>]
    ELSE LET cleaned == IF c.effect.ran /\ c.effect.promise # NoPromise
                        THEN promiseCleanup(rs)
                        ELSE rs
             ran == [c EXCEPT !.effect = [ran |-> TRUE, promise |-> c.promise]]
         IN  IF c.promise = NoPromise
             THEN [c |-> ran, reactions |-> cleaned, updates |-> <<NOT_ASKED>>]
             ELSE [c |-> ran,
                   reactions |-> cleaned \cup
                       {[promise |-> c.promise, isStillRelevant |-> TRUE]},
                   updates |-> <<LOADING>>]

\* The state cell after its queue of setData calls is applied in order.
reduce(data, updates) ==
    IF updates = <<>> THEN data ELSE updates[Len(updates)]

\* React renders the consumer c after the setData calls `updates` were made
\* outside a render: the passive effects still pending from the last commit
\* run first, their setData calls queue behind `updates`, and the body then
\* runs with the whole queue applied and returns `data`.
PromiseRender(c, rs, updates) ==
    LET f == promiseEffect(c, rs)
        data == reduce(c.data, updates \o f.updates)
    IN  [c |-> [f.c EXCEPT !.data = data, !.ret = data],
         reactions |-> f.reactions]

\* The consumer is mounted with any promise, settled or not, or with none.
InitPromise(mounted) ==
    /\ IF mounted
       THEN /\ \E q \in PromiseIds \cup {NoPromise} :
                   consumer = FreshConsumer(q)
            /\ settlement \in
                   [PromiseIds -> {"pending", "fulfilled", "rejected"}]
       ELSE /\ consumer = [FreshConsumer(NoPromise) EXCEPT !.mounted = FALSE]
            /\ settlement = [q \in PromiseIds |-> "pending"]
    /\ reactions = {}
    /\ superseded = {}

\* The parent renders the consumer with the promise q (or none).  The body
\* returns the state cell as it is; the [promise] effect follows the commit.
Supply(q) ==
    LET old == consumer
        r == PromiseRender(old, reactions, <<>>)
    IN  /\ old.mounted
        /\ consumer' = [r.c EXCEPT !.promise = q]
        /\ reactions' = r.reactions
        /\ superseded' =
               IF /\ old.promise \notin {q, NoPromise}
                  /\ settlement[old.promise] = "pending"
               THEN (superseded \cup {old.promise}) \ {q}
               ELSE superseded \ {q}
        /\ lastOp' = Op("supply", q)
        /\ UNCHANGED <<settlement, regVars, latestVars, suspenseVars, restVars, now>>

\* The scheduler runs the [promise] effect of the last commit.
PromiseFlushEffects ==
    LET r == PromiseRender(consumer, reactions, <<>>)
    IN  /\ PromiseEffectPending(consumer)
        /\ consumer' = r.c
        /\ reactions' = r.reactions
        /\ lastOp' = Op("effect", consumer.promise)
        /\ UNCHANGED <<settlement, superseded, regVars, latestVars,
                       suspenseVars, restVars, now>>

\* Promise q is fulfilled or rejected by whoever made it.
Settle(q) ==
    /\ settlement[q] = "pending"
    /\ \E s \in {"fulfilled", "rejected"} :
           settlement' = [settlement EXCEPT ![q] = s]
    /\ lastOp' = Op("settle", q)
    /\ UNCHANGED <<consumer, reactions, superseded, regVars, latestVars,
                   suspenseVars, restVars, now>>

\* The job queue runs a `then` callback whose promise has settled.  setData on
\* an unmounted instance does nothing.
Reaction(r) ==
    LET updates == reaction(r, settlement[r.promise])
        left == reactions \ {r}
        next == PromiseRender(consumer, left, updates)
    IN  /\ r \in reactions
        /\ settlement[r.promise] # "pending"
        /\ IF updates # <<>> /\ consumer.mounted
           THEN consumer' = next.c /\ reactions' = next.reactions
           ELSE consumer' = consumer /\ reactions' = left
        /\ lastOp' = Op("reaction", r.promise)
        /\ UNCHANGED <<settlement, superseded, regVars, latestVars,
                       suspenseVars, restVars, now>>

\* The consumer is unmounted: a pending effect runs, then the cleanup.
PromiseUnmount ==
    LET r == PromiseRender(consumer, reactions, <<>>)
    IN  /\ consumer.mounted
        /\ consumer' = [r.c EXCEPT !.mounted = FALSE]
        /\ reactions' = promiseCleanup(r.reactions)
        /\ lastOp' = Op("unmount", 0)
        /\ UNCHANGED <<settlement, superseded, regVars, latestVars,
                       suspenseVars, restVars, now>>

\* The consumer has nothing to run at this instant.
PromiseIdle ==
    /\ ~PromiseEffectPending(consumer)
    /\ \A r \in reactions : settlement[r.promise] = "pending"

NextPromise ==
    \/ \E q \in PromiseIds \cup {NoPromise} : Supply(q)
    \/ PromiseFlushEffects
    \/ \E q \in PromiseIds : Settle(q)
    \/ \E r \in reactions : Reaction(r)
    \/ PromiseUnmount

-----------------------------------------------------------------------------
(* RemoteSuspense *)

LoadingTimeoutDefault == 150

\* the default parameter value of loadingTimeout
loadingTimeout(given) ==
    IF given = Undefined THEN LoadingTimeoutDefault ELSE given

\* `isLoading && loadingTimeout`, the delay handed to useTimeout
loadingDelay(isLoading, timeout) ==
    IF isLoading THEN timeout ELSE DelayFalse

\* the body without its line 72: `showLoading` is left as it is
showLoadingAfterRender_keepsShowLoading(isLoading, showLoading) == showLoading

\* the value of `showLoading` after the body ran: `if (!isLoading &&
\* showLoading) setShowLoading(false)`
showLoadingAfterRender(isLoading, showLoading) ==
    IF ~isLoading /\ showLoading THEN FALSE ELSE showLoading

\* The failureFallback prop: not given (the default `() => null`), a
\* function of the error, or a React node.
FailureFallbacks == {"default", "function", "node"}

\* What the body returns: an empty fragment, the loadingFallback (a fallback
\* is given), what failureFallback(error) returned, the failureFallback node
\* itself, or what children(data) returned.
Element(kind, v) == [kind |-> kind, val |-> v]

\* The failure branch calling failureFallback whatever it is.
returned_callsFailureFallback(data, showLoading, failureFallback) ==
    CASE data = NOT_ASKED -> Element("nothing", 0)
      [] data = LOADING ->
             IF showLoading
             THEN Element("loadingFallback", 0)
             ELSE Element("nothing", 0)
      [] isFailure(data) ->
             IF failureFallback = "default"
             THEN Element("nothing", 0)
             ELSE Element("failureFallback(error)", data.val)
      [] OTHER -> Element("children(data)", data.val)

returned(data, showLoading, failureFallback) ==
    CASE data = NOT_ASKED -> Element("nothing", 0)
      [] data = LOADING ->
             IF showLoading
             THEN Element("loadingFallback", 0)
             ELSE Element("nothing", 0)
      [] isFailure(data) ->
             CASE failureFallback = "default" -> Element("nothing", 0)
               [] failureFallback = "function" ->
                      Element("failureFallback(error)", data.val)
               [] OTHER -> Element("failureFallback", 0)
      [] OTHER -> Element("children(data)", data.val)

\* The calls the body makes on its props: [fn, arg].
Call(fn, arg) == [fn |-> fn, arg |-> arg]

invocations(data, failureFallback) ==
    CASE data = NOT_ASKED \/ data = LOADING -> {}
      [] isFailure(data) ->
             IF failureFallback \in {"default", "function"}
             THEN {Call("failureFallback", data.val)}
             ELSE {}
      [] OTHER -> {Call("children", data.val)}

\* The hook state of an instance about to render for the first time:
\* useState(false), no effect has run.
FreshSuspense(data) ==
    [mounted |-> TRUE,
     data |-> data, loadingTimeout |-> Undefined,
     failureFallback |-> "default",
     showLoading |-> FALSE,
     rendered |-> [delay |-> DelayFalse],
     timer |-> [ran |-> FALSE, delay |-> DelayFalse, deadline |-> NoTimer],
     element |-> Element("nothing", 0),
     invoked |-> {}]

\* One evaluation of RemoteSuspense with the props {data, loadingTimeout,
\* failureFallback} up to its commit.  When the body calls
\* setShowLoading(false) React runs the body again with the new state before
\* committing; both runs make the same calls on the props.
SuspenseRender(st, data, given, failureFallback) ==
    LET isLoading == data = LOADING
        showLoading == showLoadingAfterRender(isLoading, st.showLoading)
    IN  [st EXCEPT
           !.data = data,
           !.loadingTimeout = given,
           !.failureFallback = failureFallback,
           !.showLoading = showLoading,
           !.rendered = [delay |-> loadingDelay(isLoading, loadingTimeout(given))],
           !.element = returned(data, showLoading, failureFallback),
           !.invoked = invocations(data, failureFallback)]

\* The [delay] effect of the last commit has not run.
SuspenseEffectsPending(st) ==
    /\ st.mounted
    /\ ~st.timer.ran \/ st.timer.delay # st.rendered.delay

\* isLoading as the last evaluation computed it
IsLoading(st) == st.rendered.delay # DelayFalse

\* The passive effect of the last commit.
SuspenseFlush(st, clock) ==
    [st EXCEPT !.timer = timeoutEffect(st.timer, st.rendered.delay, clock)]

\* History of the instance's LOADING phase, the current one or the last one:
\* when it began, the loadingTimeout it began under and whether that stayed
\* the loadingTimeout, how long it lasted once it is over, and whether the
\* loadingFallback was rendered in it; then the number of phases in a row
\* that ended before their loadingTimeout (counted up to MaxPhases), and
\* whether the loadingFallback was rendered since those began.
NoPhase ==
    [since |-> -1, timeout |-> Undefined, steady |-> TRUE, lasted |-> -1,
     fallback |-> FALSE, shorts |-> 0, shown |-> FALSE]

\* The history after an evaluation at `clock` took isLoading from `was` to
\* `st`'s.
Gated(g, was, st, clock) ==
    LET timeout == loadingTimeout(st.loadingTimeout)
        fallback == st.element.kind = "loadingFallback"
    IN  CASE IsLoading(st) /\ ~was ->
                 [g EXCEPT !.since = clock, !.timeout = timeout,
                           !.steady = TRUE, !.lasted = -1,
                           !.fallback = fallback,
                           !.shown = (g.shorts > 0 /\ g.shown) \/ fallback]
          [] IsLoading(st) /\ was ->
                 [g EXCEPT !.steady = @ /\ g.timeout = timeout,
                           !.fallback = @ \/ fallback,
                           !.shown = @ \/ fallback]
          [] ~IsLoading(st) /\ was ->
                 LET lasted == clock - g.since
                     short == g.steady /\ lasted < Ticks(g.timeout)
                 IN  [g EXCEPT !.lasted = lasted,
                               !.shorts = IF short
                                          THEN IF @ < MaxPhases THEN @ + 1 ELSE @
                                          ELSE 0]
          [] OTHER -> g

\* The instance has rendered for the first time, with any props.
InitSuspense(mounted) ==
    IF mounted
    THEN \E d \in RemoteData, t \in {Undefined, ShortLoadingTimeout},
            ff \in FailureFallbacks :
             LET first == SuspenseRender(FreshSuspense(d), d, t, ff)
             IN  /\ suspense = first
                 /\ gate = Gated(NoPhase, FALSE, first, 0)
    ELSE /\ suspense = [FreshSuspense(NOT_ASKED) EXCEPT !.mounted = FALSE]
         /\ gate = NoPhase

\* An evaluation of the instance, whose hook state is `from`, with the given
\* props: React first runs the passive effect still pending from the last
\* commit, then the body, and commits.
SuspenseEvaluate(from, data, given, failureFallback) ==
    LET st == SuspenseRender(SuspenseFlush(from, now), data, given,
                             failureFallback)
    IN  /\ from.mounted
        /\ suspense' = st
        /\ gate' = Gated(gate, IsLoading(from), st, now)
        /\ UNCHANGED <<regVars, latestVars, promiseVars, restVars, now>>

\* The parent renders the instance with new props.
SuspenseRerender ==
    \E d \in RemoteData, t \in {Undefined, ShortLoadingTimeout},
       ff \in FailureFallbacks :
        /\ SuspenseEvaluate(suspense, d, t, ff)
        /\ lastOp' = Op("RemoteSuspense", 0)

\* The scheduler runs the passive effect of the last commit.
SuspenseFlushEffects ==
    /\ SuspenseEffectsPending(suspense)
    /\ suspense' = SuspenseFlush(suspense, now)
    /\ lastOp' = Op("effect", 0)
    /\ UNCHANGED <<gate, regVars, latestVars, promiseVars, restVars, now>>

\* The timeout of the instance's useTimeout fires: currentCallback.current()
\* is () => setShowLoading(true), rendered before it returns unless the state
\* is unchanged.
SuspenseTimerFire ==
    LET old == suspense
        fired == [old EXCEPT !.timer.deadline = NoTimer]
    IN  /\ old.mounted
        /\ old.timer.deadline # NoTimer
        /\ old.timer.deadline <= now
        /\ lastOp' = Op("fire", 0)
        /\ IF old.showLoading
           THEN /\ suspense' = fired
                /\ UNCHANGED <<gate, regVars, latestVars, promiseVars,
                               restVars, now>>
           ELSE SuspenseEvaluate([fired EXCEPT !.showLoading = TRUE],
                                 old.data, old.loadingTimeout,
                                 old.failureFallback)

\* The instance is unmounted: the pending effect runs, then the cleanup.
SuspenseUnmount ==
    LET f == SuspenseFlush(suspense, now)
    IN  /\ suspense.mounted
        /\ suspense' = [f EXCEPT !.mounted = FALSE,
                                 !.timer = timeoutCleanup(f.timer)]
        /\ lastOp' = Op("unmount", 0)
        /\ UNCHANGED <<gate, regVars, latestVars, promiseVars, restVars, now>>

\* The instance has nothing to run at this instant.
SuspenseIdle ==
    suspense.mounted =>
        /\ ~SuspenseEffectsPending(suspense)
        /\ suspense.timer.deadline = NoTimer \/ suspense.timer.deadline > now

-----------------------------------------------------------------------------
(* useTimeout, called by a component with any callback and delay *)

\* the callbacks a host may pass, by identity
Callbacks == 1..NumCallbacks

\* the delays a host may pass
Delays == {DelayFalse, DelayNull, ShortDelay, LongDelay}

\* The hook state of a host about to render for the first time:
\* useRef(callback), no effect has run.
FreshHost(callback, delay) ==
    [mounted |-> TRUE,
     callback |-> callback, delay |-> delay,
     currentCallback |-> callback,
     callbackEffect |-> [ran |-> FALSE, callback |-> callback],
     timer |-> [ran |-> FALSE, delay |-> DelayFalse, deadline |-> NoTimer]]

\* The [callback] effect keeping the callback of the first run.
callbackEffect_keepsFirst(h) ==
    [h EXCEPT !.callbackEffect = [ran |-> TRUE, callback |-> h.callback]]

\* The [callback] effect at a commit: skipped when the callback is unchanged;
\* otherwise currentCallback.current = callback.
callbackEffect(h) ==
    IF h.callbackEffect.ran /\ h.callbackEffect.callback = h.callback
    THEN h
    ELSE [h EXCEPT !.callbackEffect = [ran |-> TRUE, callback |-> h.callback],
                   !.currentCallback = h.callback]

\* The passive effects of the last commit have not all run.
TimeoutEffectsPending(h) ==
    /\ h.mounted
    /\ \/ ~h.callbackEffect.ran \/ h.callbackEffect.callback # h.callback
       \/ ~h.timer.ran \/ h.timer.delay # h.delay

\* The passive effects of the last commit, in hook order.
TimeoutFlush(h, clock) ==
    LET c == callbackEffect(h)
    IN  [c EXCEPT !.timer = timeoutEffect(h.timer, h.delay, clock)]

\* A timeout of the window: the delay it was scheduled with and its deadline.
Timeout(delay, deadline) == [delay |-> delay, deadline |-> deadline]

\* The [delay] effect returning no cleanup: clearTimeout is never called.
timeouts_neverCleared(table, t, delay, clock) ==
    IF t.ran /\ t.delay = delay
    THEN table
    ELSE IF isNumber(delay)
         THEN table \cup {Timeout(delay, clock + Ticks(delay))}
         ELSE table

\* The timeouts of the window after the [delay] effect at a commit, `table`
\* being the timeouts before and t the last run of the effect: nothing when
\* the dependency is unchanged; otherwise clearTimeout(id) if the last run
\* returned a cleanup, and setTimeout(fire, delay) for a number.
timeouts(table, t, delay, clock) ==
    IF t.ran /\ t.delay = delay
    THEN table
    ELSE LET cleared == IF t.ran /\ isNumber(t.delay)
                        THEN table \ {Timeout(t.delay, t.deadline)}
                        ELSE table
         IN  IF isNumber(delay)
             THEN cleared \cup {Timeout(delay, clock + Ticks(delay))}
             ELSE cleared

\* History of the host: when the delay it passes was first passed and the
\* delay it passed before, when the callback it passes was first passed, when
\* it last called the hook, how many times a callback ran since the [delay]
\* effect last ran, the callback that ran at this instant, and the timeouts
\* of the window that were scheduled and neither cleared nor run.
NoFire == 0

NoTiming(h) ==
    [delaySince |-> 0, delayBefore |-> h.delay, callbackSince |-> 0,
     calledAt |-> 0, fires |-> 0, fired |-> NoFire, timeouts |-> {}]

\* The history after the host called the hook at `clock`, `old` being its
\* state before.
Called(g, old, callback, delay, clock) ==
    [g EXCEPT
       !.delaySince = IF delay # old.delay THEN clock ELSE @,
       !.delayBefore = IF delay # old.delay THEN old.delay ELSE @,
       !.callbackSince = IF callback # old.callback THEN clock ELSE @,
       !.calledAt = clock]

\* The history after the passive effects of h ran.
Armed(g, h, clock) ==
    [g EXCEPT
       !.fires = IF ~h.timer.ran \/ h.timer.delay # h.delay THEN 0 ELSE @,
       !.timeouts = timeouts(@, h.timer, h.delay, clock)]

\* The host has rendered for the first time, with any arguments.
InitTimeout(mounted) ==
    IF mounted
    THEN /\ \E c \in Callbacks, d \in Delays : host = FreshHost(c, d)
         /\ timing = NoTiming(host)
    ELSE /\ host = [FreshHost(1, DelayFalse) EXCEPT !.mounted = FALSE]
         /\ timing = NoTiming(host)

\* An evaluation of the host calling useTimeout(callback, delay): React first
\* runs the passive effects still pending from the last commit, then the
\* body, and commits.
TimeoutRerender ==
    \E c \in Callbacks, d \in Delays :
        /\ host.mounted
        /\ host' = [TimeoutFlush(host, now) EXCEPT !.callback = c, !.delay = d]
        /\ timing' = Called(Armed(timing, host, now), host, c, d, now)
        /\ lastOp' = Op("useTimeout", c)
        /\ UNCHANGED <<regVars, latestVars, promiseVars, suspenseVars,
                       operationVars, now>>

\* The scheduler runs the passive effects of the last commit.
TimeoutFlushEffects ==
    /\ TimeoutEffectsPending(host)
    /\ host' = TimeoutFlush(host, now)
    /\ timing' = Armed(timing, host, now)
    /\ lastOp' = Op("effect", host.callback)
    /\ UNCHANGED <<regVars, latestVars, promiseVars, suspenseVars,
                   operationVars, now>>

\* The timeout fires: `fire` calls currentCallback.current().
TimeoutFire ==
    /\ host.timer.deadline # NoTimer
    /\ host.timer.deadline <= now
    /\ host' = [host EXCEPT !.timer.deadline = NoTimer]
    /\ timing' = [timing EXCEPT
                      !.fires = @ + 1,
                      !.fired = host.currentCallback,
                      !.timeouts = @ \ {Timeout(host.timer.delay,
                                                host.timer.deadline)}]
    /\ lastOp' = Op("fire", host.currentCallback)
    /\ UNCHANGED <<regVars, latestVars, promiseVars, suspenseVars,
                   operationVars, now>>

\* The host is unmounted: the pending effects run, then the cleanup.
TimeoutUnmount ==
    LET f == TimeoutFlush(host, now)
    IN  /\ host.mounted
        /\ host' = [f EXCEPT !.mounted = FALSE,
                             !.timer = timeoutCleanup(f.timer)]
        /\ timing' = [Armed(timing, host, now) EXCEPT
                          !.timeouts = IF isNumber(f.timer.delay)
                                       THEN @ \ {Timeout(f.timer.delay,
                                                         f.timer.deadline)}
                                       ELSE @]
        /\ lastOp' = Op("unmount", 0)
        /\ UNCHANGED <<regVars, latestVars, promiseVars, suspenseVars,
                       operationVars, now>>

\* The host has nothing to run at this instant.
TimeoutIdle ==
    /\ ~TimeoutEffectsPending(host)
    /\ host.timer.deadline = NoTimer \/ host.timer.deadline > now

-----------------------------------------------------------------------------
(* useAsyncOperation, called by a component with any op and deps *)

\* `undefined` passed for op
NoOp == 0

\* the module's `never`, as a value of `runner`
never == 0

\* the functions a component may pass for op, by identity, and the values it
\* may pass for deps
Ops == 1..NumOps
DepsValues == 1..NumDeps

\* no AbortController
NoController == 0

\* op || never
runnerOf(op) == IF op # NoOp THEN op ELSE never

\* The hook state after the first evaluation with (op, deps): the first
\* AbortController, and the first promise if op was called.  `signals` and
\* `depsOf` record, for each promise, the controller whose signal its factory
\* call received and the deps of the evaluation that made the call; `called`
\* is the function called by the last evaluation; `threw` records a call of
\* `never`.
FreshOperation(op, deps) ==
    [mounted |-> TRUE,
     op |-> op, deps |-> deps,
     runner |-> runnerOf(op),
     controller |-> 1,
     promise |-> IF op # NoOp THEN 1 ELSE NoPromise,
     abortEffect |-> [ran |-> FALSE, controller |-> NoController,
                      promise |-> NoPromise],
     controllers |-> 1,
     promises |-> IF op # NoOp THEN 1 ELSE 0,
     signals |-> [q \in PromiseIds |->
                     IF op # NoOp /\ q = 1 THEN 1 ELSE NoController],
     depsOf |-> [q \in PromiseIds |-> IF op # NoOp /\ q = 1 THEN deps ELSE 0],
     called |-> IF op # NoOp THEN runnerOf(op) ELSE NoOp,
     threw |-> FALSE]

\* op || never without useCallback: the function passed at this evaluation
runner_unmemoised(o, op, deps) == runnerOf(op)

\* useCallback(op || never, deps): the function passed when deps last changed
runner(o, op, deps) == IF deps = o.deps THEN o.runner ELSE runnerOf(op)

\* The body of useAsyncOperation evaluated with (op, deps) on the hook state
\* o, down to the call of usePromise: the three memos in order.
useAsyncOperation(o, op, deps) ==
    LET r == runner(o, op, deps)
        newController == r # o.runner
        controller == IF newController THEN o.controllers + 1 ELSE o.controller
        newPromise == r # o.runner \/ controller # o.controller
        invoke == newPromise /\ op # NoOp
        q == o.promises + 1
    IN  [o EXCEPT
           !.op = op,
           !.deps = deps,
           !.runner = r,
           !.controller = controller,
           !.controllers = IF newController THEN @ + 1 ELSE @,
           !.promise = IF ~newPromise THEN @
                       ELSE IF invoke THEN q ELSE NoPromise,
           !.promises = IF invoke THEN q ELSE @,
           !.signals = IF invoke THEN [@ EXCEPT ![q] = controller] ELSE @,
           !.depsOf = IF invoke THEN [@ EXCEPT ![q] = deps] ELSE @,
           !.called = IF invoke THEN r ELSE NoOp,
           !.threw = @ \/ (invoke /\ r = never)]

\* The [controller, promise] effect of the last commit has not run.
AbortEffectPending(o) ==
    /\ o.mounted
    /\ \/ ~o.abortEffect.ran
       \/ o.abortEffect.controller # o.controller
       \/ o.abortEffect.promise # o.promise

\* The [controller, promise] effect at a commit: skipped when the
\* dependencies are unchanged; otherwise the cleanup of the last run, which
\* aborts the controller of that run.  Gives the hook state and the aborted
\* controllers.
abortEffect(o, ab) ==
    IF ~AbortEffectPending(o)
    THEN [o |-> o, aborted |-> ab]
    ELSE [o |-> [o EXCEPT !.abortEffect =
                     [ran |-> TRUE, controller |-> o.controller,
                      promise |-> o.promise]],
          aborted |-> IF o.abortEffect.ran
                      THEN ab \cup {o.abortEffect.controller}
                      ELSE ab]

\* The component has rendered for the first time, with any op and deps.
InitOperation(mounted) ==
    /\ IF mounted
       THEN \E op \in Ops \cup {NoOp}, deps \in DepsValues :
               /\ operation = FreshOperation(op, deps)
               /\ consumer.promise = operation.promise
       ELSE operation =
               [FreshOperation(NoOp, 1) EXCEPT !.mounted = FALSE]
    /\ aborted = {}

\* The parent renders the component, which calls useAsyncOperation(op, deps):
\* the passive effects still pending run first, then the body, whose last
\* call is usePromise(promise).
Operate(op, deps) ==
    LET e == abortEffect(operation, aborted)
        r == PromiseRender(consumer, reactions, <<>>)
        o == useAsyncOperation(e.o, op, deps)
    IN  /\ operation.mounted
        /\ o.controllers <= NumControllers
        /\ o.promises <= NumPromises
        /\ operation' = o
        /\ aborted' = e.aborted
        /\ consumer' = [r.c EXCEPT !.promise = o.promise]
        /\ reactions' = r.reactions
        /\ lastOp' = Op("useAsyncOperation", op)
        /\ UNCHANGED <<settlement, superseded, regVars, latestVars, suspenseVars,
                       timeoutVars, now>>

\* The scheduler runs the passive effects of the last commit.
OperationFlushEffects ==
    LET e == abortEffect(operation, aborted)
        r == PromiseRender(consumer, reactions, <<>>)
    IN  /\ AbortEffectPending(operation) \/ PromiseEffectPending(consumer)
        /\ operation' = e.o
        /\ aborted' = e.aborted
        /\ consumer' = r.c
        /\ reactions' = r.reactions
        /\ lastOp' = Op("effect", consumer.promise)
        /\ UNCHANGED <<settlement, superseded, regVars, latestVars,
                       suspenseVars, timeoutVars, now>>

\* The job queue runs a `then` callback whose promise has settled; a setData
\* it makes renders the component again with the same op and deps.
OperationReaction(r) ==
    LET updates == reaction(r, settlement[r.promise])
        left == reactions \ {r}
        e == abortEffect(operation, aborted)
        next == PromiseRender(consumer, left, updates)
    IN  /\ r \in reactions
        /\ settlement[r.promise] # "pending"
        /\ IF updates # <<>> /\ consumer.mounted
           THEN /\ consumer' = next.c
                /\ reactions' = next.reactions
                /\ operation' = [e.o EXCEPT !.called = NoOp]
                /\ aborted' = e.aborted
           ELSE /\ consumer' = consumer
                /\ reactions' = left
                /\ UNCHANGED <<operation, aborted>>
        /\ lastOp' = Op("reaction", r.promise)
        /\ UNCHANGED <<settlement, superseded, regVars, latestVars,
                       suspenseVars, timeoutVars, now>>

\* The component is unmounted: the pending effects run, then the cleanups.
OperationUnmount ==
    LET e == abortEffect(operation, aborted)
        r == PromiseRender(consumer, reactions, <<>>)
    IN  /\ operation.mounted
        /\ operation' = [e.o EXCEPT !.mounted = FALSE]
        /\ aborted' = e.aborted \cup {e.o.controller}
        /\ consumer' = [r.c EXCEPT !.mounted = FALSE]
        /\ reactions' = promiseCleanup(r.reactions)
        /\ lastOp' = Op("unmount", 0)
        /\ UNCHANGED <<settlement, superseded, regVars, latestVars,
                       suspenseVars, timeoutVars, now>>

\* The component has no effect or callback to run.
OperationIdle ==
    /\ ~AbortEffectPending(operation)
    /\ PromiseIdle

NextOperation ==
    \/ \E op \in Ops \cup {NoOp}, deps \in DepsValues : Operate(op, deps)
    \/ OperationFlushEffects
    \/ \E q \in PromiseIds : Settle(q)
    \/ \E r \in reactions : OperationReaction(r)
    \/ OperationUnmount

-----------------------------------------------------------------------------
(* The clock, and the systems checked *)

\* A producer has nothing to run at this instant.
Idle(st) ==
    st.mounted =>
        /\ ~EffectsPending(st)
        /\ st.timer.deadline = NoTimer \/ st.timer.deadline > now

\* Time passes once everything runnable has run.
Tick ==
    /\ now < MaxTime
    /\ \A p \in Producers : Idle(producer[p])
    /\ PromiseIdle
    /\ SuspenseIdle
    /\ TimeoutIdle
    /\ now' = now + 1
    /\ episode' = [p \in Producers |-> Forgotten(episode[p], producer[p])]
    /\ timing' = [timing EXCEPT !.fired = NoFire]
    /\ UNCHANGED <<regVars, producer, promiseVars, suspenseVars, host,
                   operationVars, lastOp>>

NextLatest ==
    \/ \E p \in Producers : Rerender(p)
    \/ \E p \in Producers : FlushEffects(p)
    \/ \E p \in Producers : TimerFire(p)
    \/ \E p \in Producers : Unmount(p)
    \/ Tick

\* The parent of p renders it with fresh or stale data, reporting enabled
\* and the short threshold.
Restale(p) ==
    \E d \in {Ready(1), LOADING} :
        Evaluate(p, producer[p], d, FALSE, ShortIndicatorTimeout)

\* p was first rendered with such props.
Shared(p) ==
    /\ producer[p].data \in {Ready(1), LOADING}
    /\ ~producer[p].hideIndicator
    /\ producer[p].indicatorTimeout = ShortIndicatorTimeout

NextShared ==
    \/ \E p \in Producers : Restale(p)
    \/ \E p \in Producers : FlushEffects(p)
    \/ \E p \in Producers : TimerFire(p)
    \/ \E p \in Producers : Unmount(p)
    \/ Tick

NextTimeout ==
    \/ TimeoutRerender
    \/ TimeoutFlushEffects
    \/ TimeoutFire
    \/ TimeoutUnmount
    \/ Tick

NextSuspense ==
    \/ SuspenseRerender
    \/ SuspenseFlushEffects
    \/ SuspenseTimerFire
    \/ SuspenseUnmount
    \/ Tick

\* The state after construction: an ActivityIndicator scope, the producers
\* in M, and the consumer and the RemoteSuspense instance if mounted.
InitAll(M, withConsumer, withSuspense, withHost, withOperation) ==
    /\ InitRegistry
    /\ InitProducers(M)
    /\ InitPromise(withConsumer)
    /\ InitSuspense(withSuspense)
    /\ InitTimeout(withHost)
    /\ InitOperation(withOperation)
    /\ now = 0
    /\ lastOp = Op("init", 0)

\* direct callers of the registrar
SpecRegistry == InitAll({}, FALSE, FALSE, FALSE, FALSE) /\ [][NextRegistry]_vars

\* one component calling useRemoteLatest under the ActivityIndicator
SpecLatest == InitAll({1}, FALSE, FALSE, FALSE, FALSE) /\ [][NextLatest]_vars

\* every producer mounted under the one ActivityIndicator, each going stale
\* and fresh on its own
InitShared ==
    /\ InitAll(Producers, FALSE, FALSE, FALSE, FALSE)
    /\ \A p \in Producers : Shared(p)

SpecShared == InitShared /\ [][NextShared]_vars

\* The component calling useAsyncOperation is rendered again, until it has
\* started TeardownPromises operations.  It passes for op a closure over
\* deps, whose identity is new whenever deps are.
Reoperate ==
    /\ operation.promises < TeardownPromises
    /\ \E deps \in DepsValues : Operate(deps, deps)

\* The first render of that component: op is a closure over deps and the
\* promise it returned is pending.
Started ==
    /\ operation.op = operation.deps
    /\ \A q \in PromiseIds : settlement[q] = "pending"

\* A promise returned by op settles.
SettleStarted == \E q \in 1..operation.promises : Settle(q)

NextTeardown ==
    \/ Reoperate
    \/ OperationFlushEffects
    \/ SettleStarted
    \/ \E r \in reactions : OperationReaction(r)
    \/ OperationUnmount
    \/ Restale(1)
    \/ FlushEffects(1)
    \/ TimerFire(1)
    \/ Unmount(1)
    \/ Tick

\* a component calling useAsyncOperation and a component calling
\* useRemoteLatest, both below the one ActivityIndicator, each unmounted at
\* any moment
InitTeardown ==
    /\ InitAll({1}, TRUE, FALSE, FALSE, TRUE)
    /\ Started
    /\ Shared(1)

SpecTeardown == InitTeardown /\ [][NextTeardown]_vars

\* callers of the registrar below the ActivityIndicator and outside it
SpecOutside == InitAll({}, FALSE, FALSE, FALSE, FALSE) /\ [][NextOutside]_vars

\* one component calling usePromise
SpecPromise == InitAll({}, TRUE, FALSE, FALSE, FALSE) /\ [][NextPromise]_vars

\* The same, with what the platform guarantees: the passive effects of a
\* commit are run, and the job queue runs every `then` callback of a settled
\* promise.
SpecPromiseFair ==
    /\ SpecPromise
    /\ WF_vars(PromiseFlushEffects)
    /\ WF_vars(\E r \in reactions : Reaction(r))

\* one RemoteSuspense
SpecSuspense == InitAll({}, FALSE, TRUE, FALSE, FALSE) /\ [][NextSuspense]_vars

\* one component calling useTimeout
SpecTimeout == InitAll({}, FALSE, FALSE, TRUE, FALSE) /\ [][NextTimeout]_vars

\* one component calling useAsyncOperation
SpecOperation ==
    InitAll({}, TRUE, FALSE, FALSE, TRUE) /\ [][NextOperation]_vars

-----------------------------------------------------------------------------
(* Claims on the registrar *)

\* C4: in every reachable state of a scope the aggregate boolean isIndicating
\* is true exactly when the set of registered tokens is non-empty.
C4_IndicatingIffRegistered == isIndicating <=> (registered # {})

\* C4 witness: two tokens are still registered after a deregistration.
C4_Witness ==
    /\ lastOp.op = "deregister"
    /\ Cardinality(registered) >= 2
    /\ isIndicating

\* C5: after N >= 1 register calls and N-1 calls of distinct deregister
\* closures the aggregate is true; once the Nth has been called it is false.
C5_LastDeregisterFlips ==
    LET N == Cardinality(handles)
        D == Cardinality(called)
    IN  N >= 1 => /\ (D = N - 1 => isIndicating)
                  /\ (D = N => ~isIndicating)

\* C5 witness: three registrations, all three closures called, the last call
\* being a first call of its closure.
C5_Witness ==
    /\ Cardinality(handles) = 3
    /\ called = handles
    /\ lastOp.op = "deregister"
    /\ ~isIndicating

\* C6: a second or later call of a deregister closure changes neither the
\* token set nor the aggregate, whatever was registered in between.
C6_DeregisterIdempotent ==
    [][lastOp'.op = "deregisterAgain" =>
         /\ registered' = registered
         /\ isIndicating' = isIndicating]_vars

\* C6 witness: a closure was called again while a token issued after it is
\* registered.
C6_Witness ==
    /\ lastOp.op = "deregisterAgain"
    /\ \E j \in registered : j > lastOp.id
    /\ isIndicating

-----------------------------------------------------------------------------
(* Claims on useRemoteLatest and its reporting to the ActivityIndicator *)

Settled(d) == d.tag \in {"Ready", "Failed"}
Unsettled(d) == d.tag \in {"NOT_ASKED", "LOADING"}

\* The ticks for which the hasActivity run of p has lasted.
Elapsed(p) == now - episode[p].since

\* p made a register call in this step.
Registers(p) == episode'[p].regs > episode[p].regs

\* p called a deregister closure in this step.
Deregisters(p) == episode'[p].deregs > episode[p].deregs

\* C2: at every evaluation with incoming `data` and stored `shown`, the value
\* stored and returned is `data` when `data` is Ready or Failed or the stored
\* value is not Ready, and the stored value, unchanged, otherwise.
C2_TransitionRule ==
    [][\A p \in Producers :
         LET data == producer'[p].data
             shown == producer[p].shown
         IN  /\ (Settled(data) \/ shown.tag # "Ready")
                    => producer'[p].shown = data
             /\ (Unsettled(data) /\ shown.tag = "Ready")
                    => producer'[p].shown = shown
             /\ producer'[p].ret = producer'[p].shown]_vars

\* C2 witness: Ready(2) is stored and returned at an evaluation with LOADING,
\* made after the clock has moved.
C2_Witness ==
    /\ producer[1].data = LOADING
    /\ producer[1].shown = Ready(2)
    /\ producer[1].ret = Ready(2)
    /\ episode[1].since > 0
    /\ episode[1].since = now

\* C3: while the returned value is a Ready one, an evaluation with a
\* NOT_ASKED or LOADING input returns the same value again.
C3_ReadyKeptOverUnsettled ==
    [][\A p \in Producers :
         (isReady(producer[p].ret) /\ Unsettled(producer'[p].data))
             => producer'[p].ret = producer[p].ret]_vars

\* C3 witness: Ready(1) is still returned two ticks into a run of unsettled
\* inputs, the current one being NOT_ASKED.
C3_Witness ==
    /\ producer[1].data = NOT_ASKED
    /\ producer[1].ret = Ready(1)
    /\ episode[1].held = Ready(1)
    /\ episode[1].since >= 0
    /\ Elapsed(1) >= 2

\* C7: a producer calls register only in a run of evaluations with
\* hasActivity true that has lasted at least the threshold, and holds no
\* token while such a run has lasted less than it.
C7_NoRegistrationBeforeThreshold ==
    /\ [][\A p \in Producers :
            Registers(p) =>
                /\ HasActivity(producer[p])
                /\ episode[p].steady
                       => Elapsed(p) >= Ticks(episode[p].timeout)]_vars
    /\ [](\A p \in Producers :
            (/\ episode[p].since >= 0
             /\ episode[p].steady
             /\ Elapsed(p) < Ticks(episode[p].timeout))
                => /\ episode[p].regs = 0
                   /\ producer[p].reg.token = NoToken)

\* C7 witness: Ready(1), then 100 ms of unsettled input under the threshold
\* of 250 ms, then Ready(2): no register call was ever made.
C7_Witness ==
    /\ episode[1].ended
    /\ episode[1].steady
    /\ Elapsed(1) = Ticks(100)
    /\ episode[1].timeout = 250
    /\ episode[1].held = Ready(1)
    /\ episode[1].regs = 0
    /\ producer[1].data = Ready(2)
    /\ producer[1].ret = Ready(2)
    /\ ~EffectsPending(producer[1])
    /\ uniqueId = 0

\* C8: in a run of evaluations with hasActivity true under one threshold, the
\* producer calls register once, at the threshold after the run began, holds
\* the token from then on, and calls deregister once, at the instant the run
\* ends; the value returned throughout is the Ready value it began with.
C8_OneRegistrationPerEpisode ==
    /\ [][\A p \in Producers :
            /\ (Registers(p) /\ episode[p].steady)
                   => /\ episode[p].regs = 0
                      /\ Elapsed(p) = Ticks(episode[p].timeout)
            /\ Deregisters(p)
                   => /\ episode[p].deregs = 0
                      /\ episode'[p].ended]_vars
    /\ [](\A p \in Producers :
            (episode[p].since >= 0 /\ ~episode[p].ended)
                => /\ producer[p].ret = episode[p].held
                   /\ isReady(producer[p].ret)
                   /\ episode[p].deregs = 0)
    /\ [](\A p \in Producers :
            (/\ episode[p].since >= 0
             /\ episode[p].steady
             /\ Elapsed(p) > Ticks(episode[p].timeout))
                => /\ episode[p].regs = 1
                   /\ ~episode[p].ended
                          => producer[p].reg.token \in registered
                   /\ (episode[p].ended /\ ~EffectsPending(producer[p]))
                          => /\ episode[p].deregs = 1
                             /\ producer[p].reg.token = NoToken)

\* C8 witness: Ready(1), then 400 ms of unsettled input under the threshold
\* of 250 ms, then Ready(2): one register call, one deregister call.
C8_Witness ==
    /\ episode[1].ended
    /\ episode[1].steady
    /\ Elapsed(1) = Ticks(400)
    /\ episode[1].timeout = 250
    /\ episode[1].held = Ready(1)
    /\ episode[1].regs = 1
    /\ episode[1].deregs = 1
    /\ producer[1].data = Ready(2)
    /\ producer[1].ret = Ready(2)
    /\ registered = {}
    /\ ~isIndicating

\* C9: once an evaluation has found hasActivity false and its effects have
\* run, the producer has no timeout scheduled and holds no token, and the
\* registry holds none for it.
C9_WithdrawnAtOnce ==
    \A p \in Producers :
        (/\ producer[p].mounted
         /\ ~HasActivity(producer[p])
         /\ ~EffectsPending(producer[p]))
            => /\ producer[p].timer.deadline = NoTimer
               /\ producer[p].reg.token = NoToken
               /\ registered \subseteq
                      {producer[q].reg.token : q \in Producers \ {p}}

\* C9 witness: the run ended at this instant, the effects have run and the
\* token the producer held is gone.
C9_Witness ==
    /\ producer[1].mounted
    /\ episode[1].ended
    /\ episode[1].deregs = 1
    /\ ~HasActivity(producer[1])
    /\ ~EffectsPending(producer[1])
    /\ ~isIndicating

-----------------------------------------------------------------------------
(* Claims on usePromise *)

\* C1: the `then` callback of a promise other than the one supplied leaves the
\* value returned as it is while a promise is supplied, and never makes it a
\* settled value; the value returned becomes a settled value only in the
\* callback of the promise supplied, and is then that promise's result.
C1_StaleSettlementDropped ==
    [][/\ (lastOp'.op = "reaction" /\ lastOp'.id # consumer.promise)
              => /\ consumer.promise # NoPromise
                        => consumer'.ret = consumer.ret
                 /\ Settled(consumer'.ret) => consumer'.ret = consumer.ret
       /\ (Settled(consumer'.ret) /\ consumer'.ret # consumer.ret)
              => /\ lastOp'.op = "reaction"
                 /\ lastOp'.id = consumer.promise
                 /\ consumer'.ret.val = consumer.promise]_vars

\* C1 witness: promise 1 was replaced by promise 2 while pending, promise 2
\* was fulfilled and its result returned, and the callback of promise 1 has
\* just run on its rejection.
C1_Witness ==
    /\ lastOp = Op("reaction", 1)
    /\ 1 \in superseded
    /\ settlement[1] = "rejected"
    /\ consumer.mounted
    /\ consumer.promise = 2
    /\ consumer.ret = Ready(2)

-----------------------------------------------------------------------------
(* Claims on RemoteSuspense *)

\* C10: the loadingFallback is rendered only in a LOADING phase that has
\* lasted its loadingTimeout; a phase that ended before its loadingTimeout
\* has not rendered it at any point, and neither has any of the phases in a
\* row that ended before theirs, nor a render between them.
C10_NoFallbackBeforeTimeout ==
    /\ (suspense.mounted /\ suspense.element.kind = "loadingFallback")
           => /\ gate.since >= 0
              /\ gate.lasted = -1
              /\ gate.steady => now - gate.since >= Ticks(gate.timeout)
    /\ (gate.lasted >= 0 /\ gate.steady /\ gate.lasted < Ticks(gate.timeout))
           => ~gate.fallback
    /\ (gate.lasted >= 0 /\ gate.shorts > 0) => ~gate.shown

\* C10 witness: two LOADING phases in a row ended before the default
\* loadingTimeout, the last one after 50 ms, the loadingFallback was not
\* rendered and children(1) is.
C10_Witness ==
    /\ suspense.mounted
    /\ gate.shorts = 2
    /\ gate.timeout = LoadingTimeoutDefault
    /\ gate.lasted = Ticks(50)
    /\ ~gate.fallback
    /\ ~gate.shown
    /\ suspense.element = Element("children(data)", 1)

\* C11: the element rendered and the calls made on the props follow the data
\* alone: NOT_ASKED renders nothing; a failure renders what
\* failureFallback(error) returned when failureFallback is a function, the
\* failureFallback itself when it is a node, and nothing when it is not given;
\* a ready value renders children(value); children is called only for ready
\* data and failureFallback only for a failure, each with the data's content.
C11_BranchSelection ==
    suspense.mounted =>
        LET d == suspense.data
            ff == suspense.failureFallback
        IN  /\ d = NOT_ASKED => suspense.element = Element("nothing", 0)
            /\ (isFailure(d) /\ ff = "function")
                   => suspense.element = Element("failureFallback(error)", d.val)
            /\ (isFailure(d) /\ ff = "node")
                   => suspense.element = Element("failureFallback", 0)
            /\ (isFailure(d) /\ ff = "default")
                   => suspense.element = Element("nothing", 0)
            /\ isReady(d) => suspense.element = Element("children(data)", d.val)
            /\ \A c \in suspense.invoked :
                   /\ c.fn = "children" => isReady(d) /\ c.arg = d.val
                   /\ c.fn = "failureFallback"
                          => isFailure(d) /\ ff # "node" /\ c.arg = d.val
            /\ (isReady(d) \/ (isFailure(d) /\ ff = "function"))
                   => suspense.invoked # {}

\* C11 witness: a failure was rendered as children(1) had been before it, with
\* a node for failureFallback: the node is the element and nothing was called.
C11_Witness ==
    /\ suspense.mounted
    /\ now > 0
    /\ isFailure(suspense.data)
    /\ suspense.failureFallback = "node"
    /\ suspense.element = Element("failureFallback", 0)
    /\ suspense.invoked = {}
    /\ suspense.timer.ran

-----------------------------------------------------------------------------
(* Claims on useTimeout *)

\* the callback ran at this instant
Fired == timing.fired # NoFire

\* the timeout is armed for the delay the host passes and has not fired
Armable ==
    /\ host.mounted
    /\ ~TimeoutEffectsPending(host)
    /\ isNumber(host.delay)
    /\ timing.fires = 0

CalledAgain == timing.delaySince < timing.calledAt

\* C13 as stated: a timeout scheduled with delay D and scheduled again with
\* the same D after T < D runs the callback D after the second call, that is
\* T + D after the first.
C13_SameDelayRestarts ==
    ( /\ Fired
      /\ isNumber(host.delay)
      /\ CalledAgain
      /\ timing.calledAt < now )
    => now = timing.calledAt + Ticks(host.delay)

\* C13, amended: calling the hook again with the same delay D, T < D after
\* the first call, neither cancels nor restarts the pending timeout: the
\* deadline stays D after the first call with that delay, and the callback
\* runs then.
C13_SameDelayKeepsDeadline ==
    /\ (Armable /\ CalledAgain)
       => host.timer.deadline = timing.delaySince + Ticks(host.delay)
    /\ (Fired /\ isNumber(host.delay) /\ CalledAgain)
       => now = timing.delaySince + Ticks(host.delay)

\* C13 witness: LongDelay passed at 0 and again two ticks later; the callback
\* runs LongDelay after the first call.
C13_Witness ==
    /\ Fired
    /\ host.delay = LongDelay
    /\ timing.delaySince = 0
    /\ timing.calledAt = 2
    /\ now = Ticks(LongDelay)

-----------------------------------------------------------------------------
(* Claims on usePromise *)

\* the consumer was just evaluated by its parent with a promise that differs
\* from the one of the evaluation before
NewlySupplied ==
    /\ lastOp.op = "supply"
    /\ consumer.mounted
    /\ consumer.effect.promise # consumer.promise

\* C16 as stated: every evaluation that receives a promise other than the
\* one of the evaluation before returns LOADING, never the Ready or Failed
\* result of the promise before; and the first evaluation returns LOADING
\* when it receives a promise.
C16_NewPromiseIsLoading ==
    /\ (NewlySupplied /\ consumer.promise # NoPromise)
       => consumer.ret = LOADING
    /\ (lastOp.op = "init" /\ consumer.mounted /\ consumer.promise # NoPromise)
       => consumer.ret = LOADING

\* C17 as stated: whenever the consumer is evaluated with undefined for the
\* promise it returns NOT_ASKED, whatever a promise it received before does
\* afterwards.
C17_NoPromiseIsNotAsked ==
    (consumer.mounted /\ consumer.promise = NoPromise)
    => consumer.ret = NOT_ASKED

\* C20: once every callback and effect of the consumer has run, a consumer
\* whose promise q has rejected returns Failed carrying the reason of q, and
\* one whose promise has fulfilled returns Ready carrying the value of q: a
\* settled promise never leaves it in LOADING, and the rejection reaches it
\* as a value.
C20_FailuresAreData ==
    \A q \in PromiseIds :
        (consumer.mounted /\ PromiseIdle /\ consumer.promise = q)
        => /\ settlement[q] = "rejected" => consumer.ret = failWith(q)
           /\ settlement[q] = "fulfilled" => consumer.ret = Ready(q)

\* C20 witness: the promise of the consumer has rejected and its callback has
\* delivered Failed with the reason.
C20_Witness ==
    /\ lastOp.op = "reaction"
    /\ consumer.mounted
    /\ consumer.promise # NoPromise
    /\ settlement[consumer.promise] = "rejected"
    /\ consumer.ret = failWith(consumer.promise)
    /\ PromiseIdle

-----------------------------------------------------------------------------
(* Claims on useAsyncOperation *)

\* the promises made by the calls of op so far
Invoked == {q \in PromiseIds : operation.signals[q] # NoController}

\* the signal the call that made promise q received has been raised
Aborted(q) == operation.signals[q] \in aborted

\* Once the effects of an evaluation have run, every operation started for
\* another dependency list than the current one and not settled has had its
\* signal raised.
AbortedOnChange ==
    \A q \in Invoked :
        ( /\ operation.mounted
          /\ ~AbortEffectPending(operation)
          /\ operation.depsOf[q] # operation.deps
          /\ settlement[q] = "pending" )
        => Aborted(q)

\* After the component is torn down every operation it started has had its
\* signal raised.
AbortedOnTeardown == ~operation.mounted => \A q \in Invoked : Aborted(q)

\* The evaluation that calls op passes it a signal that is not raised and
\* that no other call received.
FreshSignal ==
    (lastOp.op \in {"init", "useAsyncOperation"} /\ operation.called # NoOp)
    => /\ ~Aborted(operation.promise)
       /\ \A q \in Invoked \ {operation.promise} :
              operation.signals[q] # operation.signals[operation.promise]

\* A callback of a promise that is not the current one never makes the hook
\* return that promise's result.
StaleSettlementDropped ==
    (lastOp.op = "reaction" /\ consumer.mounted /\ lastOp.id # consumer.promise)
    => consumer.ret \notin {Ready(lastOp.id), failWith(lastOp.id)}

\* C18 as stated: when the dependency list changes, or the component is torn
\* down, before the previous operation settles, the signal passed to the
\* previous call of op is raised; the settlement of the previous operation
\* never changes the value returned; and every call of op receives a new
\* signal that is not raised.
C18_Cancellation ==
    /\ AbortedOnChange
    /\ AbortedOnTeardown
    /\ FreshSignal
    /\ StaleSettlementDropped

\* C19 as stated, for the evaluations that leave no effect or callback to
\* run: whenever op is undefined the hook returns NOT_ASKED and calls no
\* function, whatever op and deps were passed before.
C19_NoOpIsNotAsked ==
    (operation.mounted /\ operation.op = NoOp /\ OperationIdle)
    => /\ consumer.ret = NOT_ASKED
       /\ operation.called = NoOp
       /\ ~operation.threw

-----------------------------------------------------------------------------
(* Further claims on useTimeout *)

\* C25: whatever delays and callbacks the host passed, whatever fired and
\* whether or not it was unmounted, the window holds at most one timeout
\* scheduled by the hook and not yet cleared or run, and it holds none once
\* the effects have run with a delay of null or false, nor after the unmount.
C25_SinglePendingFire ==
    /\ Cardinality(timing.timeouts) <= 1
    /\ (host.mounted /\ ~TimeoutEffectsPending(host) /\ ~isNumber(host.delay))
       => timing.timeouts = {}
    /\ ~host.mounted => timing.timeouts = {}
    /\ timing.timeouts =
          IF host.timer.deadline = NoTimer
          THEN {}
          ELSE {Timeout(host.timer.delay, host.timer.deadline)}

\* C25 witness: the host passed LongDelay, then ShortDelay while the first
\* timeout was pending; the one timeout left is the second.
C25_Witness ==
    /\ timing.delayBefore = LongDelay
    /\ host.delay = ShortDelay
    /\ timing.delaySince = 2
    /\ timing.timeouts = {Timeout(ShortDelay, 2 + Ticks(ShortDelay))}
    /\ now = 3

-----------------------------------------------------------------------------
(* Further claims on useAsyncOperation *)

\* C27: for every sequence of (op, deps) passed to the hook, op going from
\* undefined to a function and back with deps changed or not, `never` is not
\* called, and a function is called only by an evaluation that passes a
\* function for op and deps other than those of the evaluation before (or by
\* the first evaluation): the function called is then op.
C27_NeverUnreachable ==
    [][ /\ ~operation'.threw
        /\ operation'.promises # operation.promises
           => /\ operation'.op # NoOp
              /\ operation'.deps # operation.deps
              /\ operation'.called = operation'.op ]_vars

\* C27 witness: the first evaluation passed undefined for op; a later one
\* passes a function with other deps, and the function is called.
C27_Witness ==
    /\ lastOp.op = "useAsyncOperation"
    /\ operation.promises = 1
    /\ operation.called = operation.op
    /\ operation.op # NoOp
    /\ operation.controllers > 1
    /\ ~operation.threw

-----------------------------------------------------------------------------
(* Further claims on useRemoteLatest *)

\* C28: the value useRemoteLatest returns is the incoming one or else the
\* Ready value it returned before; a Failed value is never kept (after
\* Failed, a NOT_ASKED or LOADING input is returned as it is); and the hook
\* is showing old data exactly when the incoming value is NOT_ASKED or
\* LOADING and the returned one is Ready, which is what it reports as
\* activity unless hideIndicator is set.
C28_OnlyReadyRetained ==
    [][\A p \in Producers :
         LET old == producer[p]
             new == producer'[p]
             isShowingOld == new.ret # new.data
         IN  /\ isShowingOld
                   => /\ Unsettled(new.data)
                      /\ isReady(new.ret)
                      /\ new.ret = old.ret
             /\ (isFailure(old.ret) /\ Unsettled(new.data))
                   => new.ret = new.data
             /\ ~isFailure(new.ret) \/ new.ret = new.data
             /\ HasActivity(new) <=> (isShowingOld /\ ~new.hideIndicator)]_vars

\* C28 witness: given LOADING, the producer returns the Ready value it
\* returned before and reports the activity.
C28_Witness ==
    /\ producer[1].mounted
    /\ producer[1].data = LOADING
    /\ producer[1].ret = Ready(2)
    /\ ~producer[1].hideIndicator
    /\ HasActivity(producer[1])
    /\ episode[1].held = Ready(2)
    /\ now = 1

\* C23: from one evaluation with hideIndicator true to the next the producer
\* makes no register call, however long it has been returning an old Ready
\* value; it still returns that value for a NOT_ASKED or LOADING input; and
\* once the effects of an evaluation with hideIndicator true have run it
\* holds no token, a token held before being withdrawn.
C23_SuppressedReporting ==
    [][\A p \in Producers :
         LET old == producer[p]
             new == producer'[p]
         IN  /\ (old.hideIndicator /\ new.hideIndicator) => ~Registers(p)
             /\ (new.hideIndicator /\ isReady(old.ret) /\ Unsettled(new.data))
                   => new.ret = old.ret
             /\ (new.mounted /\ new.hideIndicator /\ ~EffectsPending(new))
                   => /\ new.reg.token = NoToken
                      /\ new.timer.deadline = NoTimer]_vars

\* C23 witness: the producer registered a token earlier; it is now called
\* with hideIndicator true and a LOADING input, returns the old Ready value,
\* and its token is gone from the registry.
C23_Witness ==
    /\ producer[1].mounted
    /\ producer[1].hideIndicator
    /\ producer[1].data = LOADING
    /\ producer[1].ret = Ready(1)
    /\ ~EffectsPending(producer[1])
    /\ uniqueId > 0
    /\ registered = {}
    /\ ~isIndicating
    /\ now > Ticks(TimeoutBeforeShowDefault)

-----------------------------------------------------------------------------
(* Claims on producers sharing an ActivityIndicator *)

\* the producers holding a deregister closure
Holders == {p \in Producers : producer[p].reg.token # NoToken}

\* the mounted producers whose last evaluation had hasActivity true
Active == {p \in Producers : producer[p].mounted /\ HasActivity(producer[p])}

\* no producer has a passive effect left to run
EffectsRun == \A p \in Producers : ~EffectsPending(producer[p])

\* C29: with every producer under one registry and any interleaving of
\* their evaluations, timer fires, effect flushes and unmounts, the tokens of
\* the registry are exactly the ones whose deregister closure a producer
\* holds, one at most for each producer and no two producers the same; once
\* the pending effects have run they are no more than the mounted producers
\* with hasActivity true, and the aggregate is false when there is none.
C29_NoLeakedTokens ==
    /\ registered = {producer[p].reg.token : p \in Holders}
    /\ Cardinality(registered) = Cardinality(Holders)
    /\ EffectsRun
       => /\ Holders \subseteq Active
          /\ Cardinality(registered) <= Cardinality(Active)
          /\ Active = {} => ~isIndicating

\* C29 witness: two tokens were registered; producer 1 has been unmounted
\* and the only token left is the one producer 2 holds.
C29_Witness ==
    /\ ~producer[1].mounted
    /\ 2 \in Active
    /\ EffectsRun
    /\ uniqueId >= 2
    /\ producer[2].reg.token # NoToken
    /\ registered = {producer[2].reg.token}
    /\ isIndicating

-----------------------------------------------------------------------------
(* Further claims on RemoteSuspense *)

\* the timeout of the instance ran its callback in this step
SuspenseFired == lastOp'.op = "fire" /\ suspense' # suspense

\* C24: showLoading goes from false to true only in a step in which the
\* timeout runs its callback; in every committed render showLoading true
\* implies that data is LOADING, also when the timeout runs after a render
\* with other data and before the effect that disarms it; and a render with
\* LOADING that follows a render with other data has showLoading false and
\* no loadingFallback.
C24_ShowLoadingOnlyWhileLoading ==
    [][ /\ (suspense'.showLoading /\ ~suspense.showLoading) => SuspenseFired
        /\ suspense'.showLoading => suspense'.data = LOADING
        /\ suspense'.element.kind = "loadingFallback"
              => suspense'.showLoading
        /\ (IsLoading(suspense') /\ ~IsLoading(suspense))
              => /\ ~suspense'.showLoading
                 /\ suspense'.element.kind # "loadingFallback" ]_vars

\* C24 witness: a render with Ready data was committed at the very instant
\* of the deadline and the timeout has then run its callback, before the
\* effect that would have cleared it: showLoading is false and the
\* loadingFallback was not rendered.
C24_Witness ==
    /\ lastOp.op = "fire"
    /\ suspense.mounted
    /\ suspense.data = Ready(1)
    /\ ~suspense.showLoading
    /\ suspense.element = Element("children(data)", 1)
    /\ gate.steady
    /\ gate.lasted = Ticks(gate.timeout)
    /\ ~gate.fallback

-----------------------------------------------------------------------------
(* Further claims on the registrar *)

\* the step was made by a component outside the ActivityIndicator
Outside == lastOp'.op \in {"registerOutside", "deregisterOutside", "statusOutside"}

\* C22: outside any ActivityIndicator, register() and the closure it returns
\* change nothing of any registry (the tokens, the aggregate, the counter),
\* whatever calls were made before, inside or outside; and
\* useActivityIndicatorStatus() read outside returns false, also while the
\* scope is indicating.
C22_NullRegistrar ==
    [][ /\ Outside => /\ registered' = registered
                      /\ isIndicating' = isIndicating
                      /\ uniqueId' = uniqueId
        /\ lastOp'.op = "statusOutside" => lastOp'.id = 0
        /\ ~useActivityIndicatorStatus(FALSE, Registry)' ]_vars

\* C22 witness: a closure obtained outside was never called, another was
\* called, the scope holds a token and is indicating, and the status read
\* outside is false.
C22_Witness ==
    /\ lastOp = Op("statusOutside", 0)
    /\ isIndicating
    /\ Cardinality(registered) = 1
    /\ handles \cap Noops = {0 - 1, 0 - 2}
    /\ called \cap Noops = {0 - 2}


-----------------------------------------------------------------------------
(* Further claims on usePromise *)

\* promise q is the one last supplied to the mounted instance and has settled
Awaited(q) ==
    /\ consumer.mounted
    /\ consumer.promise = q
    /\ settlement[q] # "pending"

\* the instance returns what promise q settled with
Delivered(q) == consumer.ret = result(q, settlement[q])

\* C26: once the promise last supplied to a mounted instance has settled,
\* the value returned becomes Ready(value) or Failed(error) of that promise,
\* unless another promise (or none) is supplied or the instance is unmounted
\* first; and from then on every render of the mounted instance with the
\* same promise returns it.
C26_SettlementDelivered ==
    /\ \A q \in PromiseIds : Awaited(q) ~> (Delivered(q) \/ ~Awaited(q))
    /\ [][ \A q \in PromiseIds :
              (Awaited(q) /\ Delivered(q) /\ Awaited(q)') => Delivered(q)' ]_vars

\* C26 witness: promise 1, supplied last, was rejected, the job queue ran the
\* callback and the instance returns Failed(1).
C26_Witness ==
    /\ lastOp = Op("reaction", 1)
    /\ Awaited(1)
    /\ settlement[1] = "rejected"
    /\ consumer.ret = failWith(1)
    /\ ~PromiseEffectPending(consumer)


-----------------------------------------------------------------------------
(* Claims on teardown *)

\* the callbacks of the unmounted usePromise instance that would still call
\* setData
Relevant == {r \in reactions : r.isStillRelevant}

\* C21: once the component calling useAsyncOperation is unmounted, no `then`
\* callback of a promise it watched calls setData and the value it returned
\* never changes, whichever promises settle afterwards, and the signal given
\* to every operation it started is raised; once the component calling
\* useRemoteLatest is unmounted its timeout is cleared and never runs its
\* callback (`show` never changes), it holds no token, and the registry,
\* which has no other producer, is empty with the aggregate false.
C21_Teardown ==
    [][ /\ ~operation'.mounted
           => /\ ~consumer'.mounted
              /\ Relevant' = {}
              /\ \A q \in 1..operation'.promises :
                     operation'.signals[q] \in aborted'
        /\ ~consumer.mounted
           => /\ consumer'.data = consumer.data
              /\ consumer'.ret = consumer.ret
        /\ ~producer'[1].mounted
           => /\ producer'[1].timer.deadline = NoTimer
              /\ producer'[1].reg.token = NoToken
              /\ registered' = {}
              /\ ~isIndicating'
        /\ ~producer[1].mounted
           => /\ producer'[1].show = producer[1].show
              /\ producer'[1].ret = producer[1].ret ]_vars

\* C21 witness: the second operation was outstanding when its component was
\* unmounted; both signals are raised, its promise has settled since and the
\* callback has run, and LOADING is still what the instance returned last.
\* The other component was unmounted at this instant while it held a token:
\* the token was withdrawn and the registry is empty.
C21_Witness ==
    /\ lastOp = Op("reaction", 2)
    /\ ~operation.mounted
    /\ operation.promises = 2
    /\ consumer.promise = 2
    /\ consumer.ret = LOADING
    /\ settlement[2] # "pending"
    /\ reactions = {}
    /\ aborted = {1, 2}
    /\ ~producer[1].mounted
    /\ episode[1].ended
    /\ episode[1].regs = 1
    /\ episode[1].deregs = 1
    /\ registered = {}
    /\ ~isIndicating


=============================================================================
